---- MODULE Spec2Model ----
(***************************************************************************)
(* Lazy-loading User entity of python-mal (myanimelist/user.py): the       *)
(* attribute store of a User, the five page parsers, the five loaders, the *)
(* loadable attribute reads, and the session through which entities are    *)
(* resolved.  Pages served by the site are inputs: every fetch draws one   *)
(* document from a bounded set of documents.                               *)
(***************************************************************************)
EXTENDS Integers, Sequences, FiniteSets, TLC

\* ---------------------------------------------------------------- bounds
\* A page carries its content in one of MaxVal versions (what the site
\* serves can differ from one fetch to the next).
MaxVal == 2
\* load_reviews requests pages 0 .. MaxPages-1 at most.
MaxPages == 3
\* Media ids that links on a page can name.
MaxKey == 2
\* The callers make MaxOps calls in all (session lookups, attribute reads,
\* loads of a media entity).
MaxOps == 3

Callers == {1, 2}

\* ---------------------------------------------------------------- values
\* Python values, tagged so that None, a scalar, u'', a list and a dict are
\* told apart.
None == [t |-> "none", s |-> <<>>]
Val(v) == [t |-> "val", s |-> <<v>>]
EmptyStr == [t |-> "str", s |-> <<>>]
List(seq) == [t |-> "list", s |-> seq]
Dict(f) == [t |-> "dict", s |-> f]
\* the literal 'Not specified' of parse_sidebar (no page serves the scalar 0)
NotSpecified == [t |-> "val", s |-> <<0>>]

EmptyMap == [x \in {} |-> None]
Put(f, k, v) == [x \in (DOMAIN f) \cup {k} |-> IF x = k THEN v ELSE f[x]]

\* ---------------------------------------------------------------- entity
\* The attributes User.__init__ assigns: each starts as None.  (_id is not
\* among them.)
InitAttrs ==
  {"picture", "favorite_anime", "favorite_manga", "favorite_characters",
   "favorite_people", "last_online", "gender", "birthday", "location",
   "website", "join_date", "num_comments", "num_forum_posts", "num_reviews",
   "num_recommendations", "num_blog_posts", "num_clubs", "last_list_updates",
   "about", "anime_stats", "manga_stats", "reviews", "recommendations",
   "clubs", "friends"}

\* Every attribute with a loadable getter.
Loadable == InitAttrs \cup {"id"}

\* The attributes the callers read: some of each load group.
ReadAttrs ==
  {"id", "picture", "website", "birthday", "gender", "favorite_anime", "anime_stats",
   "reviews", "recommendations", "clubs", "friends"}

\* The loader named by each getter's @loadable decorator.
LoaderOf(a) ==
  CASE a = "reviews" -> "load_reviews"
    [] a = "recommendations" -> "load_recommendations"
    [] a = "clubs" -> "load_clubs"
    [] a = "friends" -> "load_friends"
    [] OTHER -> "load"

Loaders == {"load", "load_reviews", "load_recommendations", "load_clubs", "load_friends"}

\* A username as given to User(...): whether it is a unicode object, and its
\* characters.
Name(uni, chars) == [unicode |-> uni, chars |-> chars]
Satou == <<"s", "a", "t", "o", "u">>
Taro == <<"t", "a", "r", "o">>

\* User.__init__'s check of the username.
ValidUsernameAnyLength(n) == n.unicode
ValidUsername(n) == n.unicode /\ Len(n.chars) >= 1

UserInitEmptyListings ==
  [a \in InitAttrs |->
     IF a \in {"reviews", "recommendations", "friends"} THEN Dict(EmptyMap) ELSE None]
UserInit == [a \in InitAttrs |-> None]

\* An attribute is set when it holds a value other than None.
IsSet(attrs, a) == a \in DOMAIN attrs /\ attrs[a].t # "none"

\* Base.set(attr_dict): merge a mapping into the attributes; an attribute
\* that is already set keeps its value unless force is given.
set(attrs, attr_dict, force) ==
  [a \in (DOMAIN attrs) \cup (DOMAIN attr_dict) |->
     IF a \in DOMAIN attr_dict /\ (force \/ ~IsSet(attrs, a))
     THEN attr_dict[a]
     ELSE attrs[a]]

\* ---------------------------------------------------------------- session
Kinds == {"anime", "manga", "character", "person", "club", "user"}

\* A fresh entity of a kind: a User as User.__init__ leaves it, any other
\* entity with its display attribute unset.
NewEntity(kind, key) ==
  [kind |-> kind, key |-> key,
   attrs |-> IF kind = "user" THEN UserInit
             ELSE IF kind = "club" THEN [a \in {"name"} |-> None]
             ELSE [a \in {"title"} |-> None]]

\* session.<kind>(key): the entity registered for the key, or a new one
\* which is then registered.
Resolve(h, r, kind, key) ==
  IF key \in DOMAIN r[kind]
  THEN [heap |-> h, registry |-> r, ref |-> r[kind][key]]
  ELSE [heap |-> Append(h, NewEntity(kind, key)),
        registry |-> [r EXCEPT ![kind] = @ @@ (key :> (Len(h) + 1))],
        ref |-> Len(h) + 1]

\* ---------------------------------------------------------------- pages
\* A fetched document.  error404: the error404 marker is present; panel: the
\* user-profile div is present; status: the user-status lists are present;
\* content: the content table is present.  At most one fragment of the page
\* deviates from the well-formed page: `field` names it and `how` says how
\* ("absent", "bad", "empty"); v is the version of the content; items are the
\* entries of the page's listing (reviews, recommendations, clubs, friends).
Doc(kind, e404, panel, status, content, field, how, v, items) ==
  [kind |-> kind, error404 |-> e404, panel |-> panel, status |-> status,
   content |-> content, field |-> field, how |-> how, v |-> v, items |-> items]

Good(kind, v, items) == Doc(kind, FALSE, TRUE, TRUE, TRUE, "", "ok", v, items)

Frag(doc, f) == IF doc.field = f THEN doc.how ELSE "ok"

\* The result of a parser so far: the user_info mapping, the exception
\* raised ("" for none), and the session's entities as the parser left them.
Acc(info, exc, h, r) == [info |-> info, exc |-> exc, heap |-> h, registry |-> r]
Raise(acc, e) == [acc EXCEPT !.exc = e]
Store(acc, k, v) == [acc EXCEPT !.info = Put(@, k, v)]
\* `except: if not suppress_parse_exceptions: raise`
Except(acc, sup, e) == IF sup THEN acc ELSE Raise(acc, e)

\* parse_sidebar, lines 109-114
SidebarPicture(doc, sup, acc) ==
  IF acc.exc # "" THEN acc
  ELSE IF ~doc.panel \/ Frag(doc, "picture") = "bad"
       THEN Except(acc, sup, "AttributeError")
       ELSE Store(acc, "picture",
                  IF Frag(doc, "picture") = "absent" THEN None ELSE Val(doc.v))

\* parse_sidebar, lines 116-122
SidebarId(doc, sup, acc) ==
  IF acc.exc # "" THEN acc
  ELSE IF ~doc.panel \/ Frag(doc, "id") # "ok"
       THEN Except(acc, sup, "AttributeError")
       ELSE Store(acc, "id", Val(doc.v))

\* parse_sidebar, lines 124 and 133: the lookups outside any try
SidebarStatus(doc, acc) ==
  IF acc.exc # "" THEN acc
  ELSE IF ~doc.panel THEN Raise(acc, "AttributeError")
  ELSE IF ~doc.status THEN Raise(acc, "IndexError")
  ELSE acc

GeneralFields == <<"last_online", "gender", "birthday", "location", "join_date">>

\* parse_sidebar, lines 134-142: fields k.. of the general list
RECURSIVE SidebarGeneral(_, _, _, _)
SidebarGeneral(doc, sup, acc, k) ==
  IF acc.exc # "" \/ k > Len(GeneralFields) THEN acc
  ELSE LET f == GeneralFields[k]
           none == Store(acc, f, None)
           next == CASE Frag(doc, f) = "absent" -> none
                     [] Frag(doc, f) = "bad" -> Except(none, sup, "ValueError")
                     [] OTHER -> Store(acc, f, Val(doc.v))
       IN SidebarGeneral(doc, sup, next, k + 1)

\* parse_sidebar, lines 143-144
SidebarGender(acc) ==
  IF acc.exc # "" THEN acc
  ELSE IF acc.info["gender"].t = "none" THEN Store(acc, "gender", NotSpecified)
  ELSE acc

StatsFields ==
  <<"num_forum_posts", "num_reviews", "num_recommendations", "num_blog_posts", "num_clubs">>

\* parse_sidebar, lines 153-160: fields k.. of the statistics list
RECURSIVE SidebarStats(_, _, _, _)
SidebarStats(doc, sup, acc, k) ==
  IF acc.exc # "" \/ k > Len(StatsFields) THEN acc
  ELSE LET f == StatsFields[k]
           next == IF Frag(doc, f) = "ok" THEN Store(acc, f, Val(doc.v))
                   ELSE Except(acc, sup, "AttributeError")
       IN SidebarStats(doc, sup, next, k + 1)

\* parse_sidebar, lines 162-164: no try around the lookup
SidebarWebsite(doc, acc) ==
  IF acc.exc # "" THEN acc
  ELSE CASE Frag(doc, "website") = "absent" -> acc
         [] Frag(doc, "website") = "bad" -> Raise(acc, "AttributeError")
         [] OTHER -> Store(acc, "website", Val(doc.v))

\* parse_sidebar
parse_sidebar(doc, sup, h, r) ==
  IF doc.error404 THEN Acc(EmptyMap, "InvalidUserError", h, r)
  ELSE LET a0 == Acc(EmptyMap, "", h, r)
           a1 == SidebarPicture(doc, sup, a0)
           a2 == SidebarId(doc, sup, a1)
           a3 == SidebarStatus(doc, a2)
           a4 == SidebarGeneral(doc, sup, a3, 1)
           a5 == SidebarGender(a4)
           a6 == SidebarStats(doc, sup, a5, 1)
       IN SidebarWebsite(doc, a6)

\* ---------------------------------------------------------------- links
\* One entry of a listing: a link to entity (kind, key), for some listings
\* with a second link (kind2, key2; kind2 = "" when there is none); ok is
\* FALSE when the entry's markup is malformed.
Item(kind, key, ok, kind2, key2) ==
  [kind |-> kind, key |-> key, ok |-> ok, kind2 |-> kind2, key2 |-> key2]
Link(kind, key) == Item(kind, key, TRUE, "", 0)
Broken(kind, key) == Item(kind, key, FALSE, "", 0)

\* `.set({u'title': link_tag.text})` on a resolved entity (`name` for a
\* club, lines 203 and 458); a friend is resolved without a set (line 487).
Hint(h, i, v) ==
  IF h[i].kind = "user" THEN h
  ELSE [h EXCEPT ![i].attrs =
          set(@, (IF h[i].kind = "club" THEN "name" ELSE "title") :> Val(v), FALSE)]

\* The parsers' calls `self.session.anime(...)`, `self.session.user(...)`,
\* `getattr(self.session, kind)(...)` (lines 203, 366, 487, ...).
Construct(h, r, kind, key) ==
  [heap |-> Append(h, NewEntity(kind, key)),
   registry |-> [r EXCEPT ![kind] =
                   [x \in (DOMAIN @) \cup {key} |-> IF x = key THEN Len(h) + 1 ELSE @[x]]],
   ref |-> Len(h) + 1]
Lookup(h, r, kind, key) == Resolve(h, r, kind, key)

ListFields == {"favorite_anime", "favorite_manga", "favorite_people", "clubs"}

\* The body of a `for` loop over a listing, for one entry: resolve the linked
\* entities through the session, hint their titles, and add the entry to
\* user_info[f].  A malformed entry raises before anything is resolved.
Row(acc, f, it, v) ==
  IF ~it.ok THEN Raise(acc, "ValueError")
  ELSE IF it.kind = "user" /\ ~ValidUsername(it.key)
  THEN Raise(acc, "InvalidUserError")
  ELSE LET r1 == Lookup(acc.heap, acc.registry, it.kind, it.key)
           h1 == Hint(r1.heap, r1.ref, v)
           two == it.kind2 # ""
           r2 == IF two THEN Lookup(h1, r1.registry, it.kind2, it.key2)
                 ELSE [heap |-> h1, registry |-> r1.registry, ref |-> 0]
           h2 == IF two THEN Hint(r2.heap, r2.ref, v) ELSE h1
           old == acc.info[f].s
           new == CASE f \in ListFields -> List(Append(old, r1.ref))
                    [] f = "favorite_characters" -> Dict(Put(old, r1.ref, r2.ref))
                    [] OTHER -> Dict(Put(old, r1.ref, v))
       IN [acc EXCEPT !.heap = h2, !.registry = r2.registry, !.info = Put(@, f, new)]

\* The `for` loop over entries k.. of a listing; it ends at the first
\* exception, with user_info[f] holding the entries added before it.
RECURSIVE Rows(_, _, _, _, _)
Rows(acc, f, items, v, k) ==
  IF acc.exc # "" \/ k > Len(items) THEN acc
  ELSE Rows(Row(acc, f, items[k], v), f, items, v, k + 1)

\* The end of a try block: in permissive mode the exception raised inside
\* it is dropped, and user_info stays as the block left it.
Suppress(acc, sup) == IF sup THEN [acc EXCEPT !.exc = ""] ELSE acc

\* A try block that assigns user_info[f] an empty collection and fills it
\* from a listing.
TryRows(acc, sup, f, empty, items, v) ==
  IF acc.exc # "" THEN acc
  ELSE Suppress(Rows(Store(acc, f, empty), f, items, v, 1), sup)

\* The entries of the listing of fragment f on a page: n links to entities
\* of a kind; "empty": none; "bad": the last entry is malformed.
BaseItems(kind, n) == [k \in 1..n |-> Link(kind, k)]
FieldItems(doc, f, base) ==
  CASE Frag(doc, f) = "empty" -> <<>>
    [] Frag(doc, f) = "bad" -> [base EXCEPT ![Len(base)].ok = FALSE]
    [] OTHER -> base

\* parse, lines 183-189
ParseNumComments(doc, sup, acc) ==
  IF acc.exc # "" THEN acc
  ELSE IF Frag(doc, "num_comments") = "ok" THEN Store(acc, "num_comments", Val(doc.v))
  ELSE Except(acc, sup, "AttributeError")

\* parse, one favorites try block (lines 196-206, 208-218, 220-235, 237-247):
\* a missing section raises before user_info[f] is assigned.
ParseFavorite(doc, sup, acc, f, empty, base) ==
  IF acc.exc # "" THEN acc
  ELSE IF Frag(doc, f) = "absent" THEN Except(acc, sup, "IndexError")
  ELSE TryRows(acc, sup, f, empty, FieldItems(doc, f, base), doc.v)

\* parse, lines 192-247
ParseFavorites(doc, sup, acc) ==
  IF acc.exc # "" \/ Frag(doc, "favorites") = "absent" THEN acc
  ELSE LET a1 == ParseFavorite(doc, sup, acc, "favorite_anime", List(<<>>),
                               BaseItems("anime", MaxKey))
           a2 == ParseFavorite(doc, sup, a1, "favorite_manga", List(<<>>),
                               BaseItems("manga", 1))
           a3 == ParseFavorite(doc, sup, a2, "favorite_characters", Dict(EmptyMap),
                               <<Item("character", 1, TRUE, "anime", 1)>>)
       IN ParseFavorite(doc, sup, a3, "favorite_people", List(<<>>),
                        BaseItems("person", 1))

\* parse, lines 251-288
ParseListUpdates(doc, sup, acc) ==
  IF acc.exc # "" \/ Frag(doc, "last_list_updates") = "absent" THEN acc
  ELSE TryRows(acc, sup, "last_list_updates", Dict(EmptyMap),
               FieldItems(doc, "last_list_updates", <<Link("anime", 1), Link("manga", 1)>>),
               doc.v)

\* parse, lines 291-306 and 309-324: the statistics block of one medium.  The
\* dict is assigned to user_info before its entries are read.
ParseStats(doc, sup, acc, f) ==
  IF acc.exc # "" THEN acc
  ELSE IF Frag(doc, "statistics") = "absent" THEN Except(acc, sup, "AttributeError")
  ELSE CASE Frag(doc, f) = "absent" ->
              Except(Store(acc, f, Dict(EmptyMap)), sup, "AttributeError")
         [] Frag(doc, f) = "bad" ->
              Except(Store(acc, f, Dict([m \in {"Days"} |-> doc.v])), sup, "ValueError")
         [] OTHER ->
              Store(acc, f, Dict([m \in {"Days", "Mean Score", "Completed", "Total Entries"}
                                   |-> doc.v]))

\* parse, lines 326-334
ParseAbout(doc, sup, acc) ==
  IF acc.exc # "" THEN acc
  ELSE CASE Frag(doc, "about") = "absent" -> Store(acc, "about", EmptyStr)
         [] Frag(doc, "about") = "bad" -> Except(acc, sup, "AttributeError")
         [] OTHER -> Store(acc, "about", Val(doc.v))

\* User.parse
parse(doc, sup, h, r) ==
  LET a0 == parse_sidebar(doc, sup, h, r)
      a1 == ParseNumComments(doc, sup, a0)
      a2 == ParseFavorites(doc, sup, a1)
      a3 == ParseListUpdates(doc, sup, a2)
      a4 == ParseStats(doc, sup, a3, "anime_stats")
      a5 == ParseStats(doc, sup, a4, "manga_stats")
  IN ParseAbout(doc, sup, a5)

\* The lookup of the listing's column (lines 349, 403, 446, 475), outside
\* any try.
SecondCol(doc, acc) ==
  IF acc.exc # "" THEN acc
  ELSE IF ~doc.content THEN Raise(acc, "AttributeError")
  ELSE acc

\* User.parse_reviews
parse_reviews(doc, sup, h, r) ==
  TryRows(SecondCol(doc, parse_sidebar(doc, sup, h, r)), sup,
          "reviews", Dict(EmptyMap), doc.items, doc.v)

\* User.parse_recommendations: user_info['recommendations'] is assigned only
\* when the page lists something, and the first listed div is skipped.
parse_recommendations(doc, sup, h, r) ==
  LET a == SecondCol(doc, parse_sidebar(doc, sup, h, r))
  IN IF a.exc # "" \/ doc.items = <<>> THEN a
     ELSE TryRows(a, sup, "recommendations", Dict(EmptyMap), Tail(doc.items), doc.v)

\* User.parse_clubs
parse_clubs_whole_profile(doc, sup, h, r) ==
  TryRows(SecondCol(doc, parse(doc, sup, h, r)), sup,
          "clubs", List(<<>>), doc.items, doc.v)
parse_clubs(doc, sup, h, r) ==
  TryRows(SecondCol(doc, parse_sidebar(doc, sup, h, r)), sup,
          "clubs", List(<<>>), doc.items, doc.v)

\* User.parse_friends
parse_friends(doc, sup, h, r) ==
  TryRows(SecondCol(doc, parse_sidebar(doc, sup, h, r)), sup,
          "friends", Dict(EmptyMap), doc.items, doc.v)

\* ---------------------------------------------------------------- inputs
\* The ways one fragment of the sidebar can deviate.
SidebarDevs ==
  {<<"picture", "absent">>, <<"picture", "bad">>, <<"id", "bad">>,
   <<"website", "absent">>, <<"website", "bad">>}
  \cup {<<GeneralFields[k], how>> : k \in 1..Len(GeneralFields), how \in {"absent", "bad"}}
  \cup {<<StatsFields[k], "bad">> : k \in 1..Len(StatsFields)}

\* The ways one fragment of the profile page's main area can deviate.
ProfileDevs ==
  {<<"num_comments", "bad">>, <<"favorites", "absent">>, <<"statistics", "absent">>,
   <<"last_list_updates", "absent">>, <<"last_list_updates", "bad">>,
   <<"anime_stats", "absent">>, <<"anime_stats", "bad">>,
   <<"manga_stats", "absent">>, <<"manga_stats", "bad">>,
   <<"about", "absent">>, <<"about", "bad">>}
  \cup {<<f, how>> : f \in {"favorite_anime", "favorite_manga", "favorite_characters",
                            "favorite_people"},
                     how \in {"absent", "bad", "empty"}}

Deviating(kind, dev, items) ==
  Doc(kind, FALSE, TRUE, TRUE, TRUE, dev[1], dev[2], 1, items)

\* Pages whose overall structure is not the expected one.
Unstructured(kind, items) ==
  {Doc(kind, TRUE, TRUE, TRUE, TRUE, "", "ok", 1, items),
   Doc(kind, FALSE, FALSE, TRUE, TRUE, "", "ok", 1, items),
   Doc(kind, FALSE, TRUE, FALSE, TRUE, "", "ok", 1, items)}
  \cup (IF kind = "profile" THEN {}
        ELSE {Doc(kind, FALSE, TRUE, TRUE, FALSE, "", "ok", 1, items)})

\* The listings a page of each kind can carry.
Listings(kind) ==
  CASE kind = "reviews" ->
         {<<>>, <<Link("anime", 1)>>, <<Link("manga", MaxKey)>>,
          <<Link("anime", MaxKey), Broken("anime", 1)>>, <<Broken("anime", 1)>>}
    [] kind = "recommendations" ->
         {<<>>, <<Broken("anime", 1)>>,
          <<Broken("anime", 1), Item("anime", 1, TRUE, "anime", MaxKey)>>,
          <<Broken("anime", 1), Item("anime", 1, FALSE, "anime", MaxKey)>>}
    [] kind = "clubs" ->
         {<<>>, <<Link("club", 1)>>, <<Link("club", 1), Broken("club", MaxKey)>>}
    [] kind = "friends" ->
         {<<>>, <<Link("user", Name(TRUE, Satou)), Link("user", Name(TRUE, Taro))>>,
          <<Link("user", Name(TRUE, Taro)), Broken("user", Name(TRUE, Satou))>>, <<Link("user", Name(TRUE, <<>>))>>}
    [] OTHER -> {<<>>}

\* The sidebar deviations a listing page is served with.
ListingDevs ==
  {<<"picture", "absent">>, <<"last_online", "absent">>, <<"birthday", "bad">>,
   <<"num_clubs", "bad">>}

\* The listing a page carries when its sidebar or structure deviates, or
\* when its content is of a later version.
BaseListing(kind) ==
  CASE kind = "reviews" -> <<Link("anime", 1)>>
    [] kind = "recommendations" -> <<Broken("anime", 1), Item("anime", 1, TRUE, "anime", MaxKey)>>
    [] kind = "clubs" -> <<Link("club", 1)>>
    [] kind = "friends" -> <<Link("user", Name(TRUE, Taro))>>
    [] OTHER -> <<>>

\* Well-formed pages of a kind: every fragment parses.
WellFormed(kind) ==
  {Good(kind, v, BaseListing(kind)) : v \in 1..MaxVal}
  \cup {Good(kind, 1, items) : items \in {l \in Listings(kind) : \A k \in 1..Len(l) : l[k].ok}}

\* Every page of a kind that a fetch can return.
AllDocs(kind) ==
  WellFormed(kind)
  \cup {Good(kind, 1, items) : items \in Listings(kind)}
  \cup {Deviating(kind, dev, BaseListing(kind)) :
          dev \in IF kind = "profile" THEN SidebarDevs \cup ProfileDevs ELSE ListingDevs}
  \cup Unstructured(kind, BaseListing(kind))

\* The usernames a caller asks the session for.
Usernames == {Name(TRUE, Satou), Name(TRUE, <<>>), Name(FALSE, Satou)}

\* ---------------------------------------------------------------- state
VARIABLES
  suppress_parse_exceptions, \* the session's option
  heap,      \* the entities constructed so far, in order of construction
  registry,  \* the session's entities: kind -> (key -> index in heap)
  me,        \* the User the callers hold (index in heap), 0 before there is one
  call,      \* per caller: the operation it is in, and what its last one did
  done,      \* per loader: some call of it on `me` has returned
  ops,       \* the number of calls the callers have made
  concurrent, \* whether the second caller runs too
  sessions   \* the Session objects constructed, in order of construction

vars ==
  <<suppress_parse_exceptions, heap, registry, me, call, done, ops, concurrent, sessions>>

\* The callers that run.
Active == IF concurrent THEN Callers ELSE {1}

\* What a fetch of a page of a kind can return: any page when one caller
\* runs, a well-formed page when two callers run.
Docs(kind) == IF concurrent THEN WellFormed(kind) ELSE AllDocs(kind)

\* A caller's record.  pc: "idle", or the loader the caller is inside;
\* op: the call it made last; arg: the username of a session_user call;
\* attr: the attribute whose getter it called; page, review_collection: the
\* locals of load_reviews; req: the page numbers the call requested, in
\* order; lens: the number of review entries each parsed page yielded;
\* doc: the document fetched last; outcome: how the call ended ("none"
\* before it has, "ok", or the exception raised); cached: the getter found
\* the attribute set; fresh: no load of the group had returned when the
\* read began; loaded: the entity a full load was made on.
Idle ==
  [pc |-> "idle", op |-> "", arg |-> Name(FALSE, <<>>), attr |-> "", page |-> 0,
   review_collection |-> <<>>, req |-> <<>>, lens |-> <<>>, doc |-> Good("", 1, <<>>),
   outcome |-> "none", cached |-> FALSE, fresh |-> FALSE, loaded |-> 0]

Init ==
  /\ suppress_parse_exceptions \in BOOLEAN
  /\ heap = <<>>
  /\ registry = [k \in Kinds |-> <<>>]
  /\ me = 0
  /\ call = [t \in Callers |-> Idle]
  /\ done = [l \in Loaders |-> FALSE]
  /\ ops = 0
  /\ concurrent \in BOOLEAN
  /\ sessions = <<>>

\* session.user(username): User.__init__ raises InvalidUserError for a
\* username that is not unicode or is empty; no entity comes to exist then.
session_user(t, n) ==
  /\ call[t].pc = "idle"
  /\ ops < MaxOps
  /\ ops' = ops + 1
  /\ IF ~ValidUsername(n)
     THEN /\ call' = [call EXCEPT ![t] =
                        [Idle EXCEPT !.op = "session_user", !.arg = n,
                                     !.outcome = "InvalidUserError"]]
          /\ UNCHANGED <<heap, registry, me>>
     ELSE LET res == Resolve(heap, registry, "user", n)
          IN /\ heap' = res.heap
             /\ registry' = res.registry
             /\ me' = res.ref
             /\ call' = [call EXCEPT ![t] =
                           [Idle EXCEPT !.op = "session_user", !.arg = n, !.outcome = "ok"]]
  /\ UNCHANGED <<sessions, suppress_parse_exceptions, done, concurrent>>

\* session.anime(k), called by a caller.
session_anime(t, k) ==
  /\ call[t].pc = "idle"
  /\ ops < MaxOps
  /\ ops' = ops + 1
  /\ LET res == Resolve(heap, registry, "anime", k)
     IN /\ heap' = res.heap
        /\ registry' = res.registry
        /\ call' = [call EXCEPT ![t] =
                      [Idle EXCEPT !.op = "session_anime", !.loaded = res.ref,
                                   !.outcome = "ok"]]
  /\ UNCHANGED <<sessions, suppress_parse_exceptions, me, done, concurrent>>

\* The title a full load of a media entity parses from the entity's own
\* page (no link on a user's page carries it: links carry versions 1, 2, ...).
FullTitle == Val(0)

\* Anime.load() on entity i: fetch the entity's page, parse it, set() the
\* result, as User.load does.
anime_load(t, i) ==
  /\ call[t].pc = "idle"
  /\ ops < MaxOps
  /\ ops' = ops + 1
  /\ i \in 1..Len(heap)
  /\ heap[i].kind = "anime"
  /\ heap' = [heap EXCEPT ![i].attrs = set(@, "title" :> FullTitle, FALSE)]
  /\ call' = [call EXCEPT ![t] =
                [Idle EXCEPT !.op = "anime_load", !.loaded = i, !.outcome = "ok"]]
  /\ UNCHANGED <<sessions, suppress_parse_exceptions, registry, me, done, concurrent>>

\* What a loadable getter returns after its check: `return self._<attr>`.
Return(attrs, a) == IF a \in DOMAIN attrs THEN "ok" ELSE "AttributeError"

\* A read of attribute a of `me`: the loadable wrapper returns the cached
\* value when the attribute is set and calls the attribute's loader when not.
Read(t, a) ==
  /\ call[t].pc = "idle"
  /\ ops < MaxOps
  /\ ops' = ops + 1
  /\ me # 0
  /\ IF IsSet(heap[me].attrs, a)
     THEN call' = [call EXCEPT ![t] =
                     [Idle EXCEPT !.op = "read", !.attr = a, !.outcome = "ok",
                                  !.cached = TRUE]]
     ELSE call' = [call EXCEPT ![t] =
                     [Idle EXCEPT !.op = "read", !.pc = LoaderOf(a), !.attr = a,
                                  !.fresh = ~done[LoaderOf(a)]]]
  /\ UNCHANGED <<sessions, suppress_parse_exceptions, heap, registry, me, done, concurrent>>

\* The end of a single-page loader that fetched doc and parsed it to a:
\* `self.set(self.parse...(...)); return self`, or the parser's exception.
FinishForced(t, loader, doc, a) ==
  /\ call[t].pc = loader
  /\ registry' = a.registry
  /\ heap' = IF a.exc = "" THEN [a.heap EXCEPT ![me].attrs = set(@, a.info, TRUE)]
             ELSE a.heap
  /\ call' = [call EXCEPT ![t] =
                [@ EXCEPT !.pc = "idle", !.attr = "", !.req = <<0>>, !.doc = doc,
                          !.outcome = IF a.exc = ""
                                      THEN Return(heap'[me].attrs, call[t].attr)
                                      ELSE a.exc]]
  /\ done' = IF a.exc = "" THEN [done EXCEPT ![loader] = TRUE] ELSE done
  /\ UNCHANGED <<sessions, suppress_parse_exceptions, me, ops, concurrent>>
Finish(t, loader, doc, a) ==
  /\ call[t].pc = loader
  /\ registry' = a.registry
  /\ heap' = IF a.exc = "" THEN [a.heap EXCEPT ![me].attrs = set(@, a.info, FALSE)]
             ELSE a.heap
  /\ call' = [call EXCEPT ![t] =
                [@ EXCEPT !.pc = "idle", !.attr = "", !.req = <<0>>, !.doc = doc,
                          !.outcome = IF a.exc = ""
                                      THEN Return(heap'[me].attrs, call[t].attr)
                                      ELSE a.exc]]
  /\ done' = IF a.exc = "" THEN [done EXCEPT ![loader] = TRUE] ELSE done
  /\ UNCHANGED <<sessions, suppress_parse_exceptions, me, ops, concurrent>>

\* User.load
load(t) ==
  \E doc \in Docs("profile") :
    Finish(t, "load", doc, parse(doc, suppress_parse_exceptions, heap, registry))

\* User.load_recommendations
load_recommendations(t) ==
  \E doc \in Docs("recommendations") :
    Finish(t, "load_recommendations", doc,
           parse_recommendations(doc, suppress_parse_exceptions, heap, registry))

\* User.load_clubs
load_clubs(t) ==
  \E doc \in Docs("clubs") :
    Finish(t, "load_clubs", doc, parse_clubs(doc, suppress_parse_exceptions, heap, registry))

\* User.load_friends
load_friends(t) ==
  \E doc \in Docs("friends") :
    Finish(t, "load_friends", doc,
           parse_friends(doc, suppress_parse_exceptions, heap, registry))

\* The dict comprehension of load_reviews, line 536: entries of later pages
\* replace entries of earlier pages with the same key.
RECURSIVE Merge(_)
Merge(coll) ==
  IF coll = <<>> THEN EmptyMap
  ELSE coll[Len(coll)] @@ Merge(SubSeq(coll, 1, Len(coll) - 1))

\* load_reviews, line 529: the loop ends at a page without review entries.
LastPageOffByOne(n) == n <= 1
LastPage(n) == n = 0

\* One turn of load_reviews' loop: fetch page `page`, parse it, set() the
\* result when page is 0; on an empty page leave the loop, set() the merged
\* reviews and return; otherwise keep the page's reviews and go on.
load_reviews(t) ==
  /\ call[t].pc = "load_reviews"
  /\ call[t].page < MaxPages
  /\ \E doc \in Docs("reviews") :
       LET c == call[t]
           a == parse_reviews(doc, suppress_parse_exceptions, heap, registry)
           req == Append(c.req, c.page)
           h1 == IF c.page = 0 THEN [a.heap EXCEPT ![me].attrs = set(@, a.info, FALSE)]
                 ELSE a.heap
           n == Cardinality(DOMAIN a.info["reviews"].s)
           h2 == [h1 EXCEPT ![me].attrs =
                    set(@, "reviews" :> Dict(Merge(c.review_collection)), FALSE)]
       IN /\ registry' = a.registry
          /\ IF a.exc # ""
             THEN /\ heap' = a.heap
                  /\ call' = [call EXCEPT ![t] =
                                [c EXCEPT !.pc = "idle", !.attr = "", !.req = req,
                                          !.doc = doc, !.outcome = a.exc]]
                  /\ done' = done
             ELSE IF LastPage(n)
             THEN /\ heap' = h2
                  /\ call' = [call EXCEPT ![t] =
                                [c EXCEPT !.pc = "idle", !.attr = "", !.req = req,
                                          !.doc = doc, !.lens = Append(@, n),
                                          !.outcome = Return(h2[me].attrs, c.attr)]]
                  /\ done' = [done EXCEPT !["load_reviews"] = TRUE]
             ELSE /\ heap' = h1
                  /\ call' = [call EXCEPT ![t] =
                                [c EXCEPT !.req = req, !.doc = doc, !.lens = Append(@, n),
                                          !.page = @ + 1,
                                          !.review_collection =
                                             Append(@, a.info["reviews"].s)]]
                  /\ done' = done
  /\ UNCHANGED <<sessions, suppress_parse_exceptions, me, ops, concurrent>>

Next ==
  \/ \E t \in Active, n \in Usernames : session_user(t, n)
  \/ \E t \in Active, k \in 1..MaxKey : session_anime(t, k)
  \/ \E t \in Active, i \in 1..Len(heap) : anime_load(t, i)
  \/ \E t \in Active, a \in ReadAttrs : Read(t, a)
  \/ \E t \in Active : load(t)
  \/ \E t \in Active : load_reviews(t)
  \/ \E t \in Active : load_recommendations(t)
  \/ \E t \in Active : load_clubs(t)
  \/ \E t \in Active : load_friends(t)

Spec == Init /\ [][Next]_vars

\* -------------------------------------------------------------- sessions
\* Credentials as given to Session(username, password).  The site knows one
\* account (the MAL_USERNAME and MAL_PASSWORD of the tests); the tests' other
\* sessions are made with u'no-username' and 'no-password', or with None for
\* both (written "None" here).
Cred(u, p) == [username |-> u, password |-> p]
Account == Cred("MAL_USERNAME", "MAL_PASSWORD")
Credentials ==
  {Account, Cred("MAL_USERNAME", "no-password"), Cred("no-username", "no-password"),
   Cred("None", "None")}

\* The site accepts a login with the account's username and password.
Accepts(c) == c = Account

MaxSessions == 3

\* Session(username, password): a new session holds its credentials and no
\* login cookie; logins counts as far as one whether login() has returned.
Session(c) ==
  /\ Len(sessions) < MaxSessions
  /\ sessions' = Append(sessions, [cred |-> c, cookie |-> FALSE, logins |-> 0])
  /\ UNCHANGED <<suppress_parse_exceptions, heap, registry, me, call, done, ops, concurrent>>

\* session.login(): posts the session's credentials; the site answers with
\* a login cookie for this session when it accepts them.
login_shared_cookies(s) ==
  /\ s \in 1..Len(sessions)
  /\ sessions' = [k \in 1..Len(sessions) |->
                    [sessions[k] EXCEPT !.cookie = @ \/ Accepts(sessions[s].cred),
                                        !.logins = IF k = s THEN 1 ELSE @]]
  /\ UNCHANGED <<suppress_parse_exceptions, heap, registry, me, call, done, ops, concurrent>>
login(s) ==
  /\ s \in 1..Len(sessions)
  /\ sessions' = [sessions EXCEPT ![s].cookie = @ \/ Accepts(sessions[s].cred),
                                  ![s].logins = 1]
  /\ UNCHANGED <<suppress_parse_exceptions, heap, registry, me, call, done, ops, concurrent>>

\* session.logged_in(): whether the site takes the session for logged in.
logged_in(s) == sessions[s].cookie

SessionNext ==
  \/ \E c \in Credentials : Session(c)
  \/ \E s \in 1..MaxSessions : login(s)

SessionSpec == Init /\ [][SessionNext]_vars

\* ---------------------------------------------------------------- claims
\* The attributes of the User the callers hold.
Mine == heap[me].attrs

\* C1 (as claimed): once a load of a group has returned, no later read of an
\* attribute of that group starts another load of the group, whatever value
\* the load gave the attribute.
C1_NoRefetch ==
  [][\A t \in Callers :
       (call[t].pc = "idle" /\ call'[t].pc \in Loaders) => ~done[call'[t].pc]]_vars

\* C2: load_reviews requests pages 0, 1, 2, ... in order without gaps or
\* repeats; every page before the last requested one yielded review entries;
\* a call that returned requested exactly the pages up to the first one
\* without entries; a call that raised did so on the last page it requested.
C2_Pagination ==
  \A t \in Callers :
    LET c == call[t]
    IN c.doc.kind = "reviews" =>
         /\ c.req = [k \in 1..Len(c.req) |-> k - 1]
         /\ Len(c.req) <= MaxPages
         /\ \A k \in 1..Len(c.lens) : k < Len(c.req) => c.lens[k] > 0
         /\ c.pc = "load_reviews" => Len(c.lens) = Len(c.req) /\ c.page = Len(c.req)
         /\ (c.pc = "idle" /\ c.outcome = "ok") =>
              Len(c.lens) = Len(c.req) /\ c.lens[Len(c.lens)] = 0
         /\ (c.pc = "idle" /\ c.outcome # "ok") => Len(c.lens) = Len(c.req) - 1

\* C2's case: a call of load_reviews returned after two pages with entries
\* and an empty third page: three requests, for pages 0, 1 and 2.
C2_Witness ==
  \E t \in Callers :
    /\ call[t].doc.kind = "reviews" /\ call[t].pc = "idle" /\ call[t].outcome = "ok"
    /\ call[t].req = <<0, 1, 2>>
    /\ call[t].lens[1] > 0 /\ call[t].lens[2] > 0 /\ call[t].lens[3] = 0

\* C3 (as claimed): when load_reviews has returned, the reviews attribute
\* holds the entries of all the non-empty pages the call fetched.
C3_ReviewsAreUnion ==
  \A t \in Callers :
    (call[t].doc.kind = "reviews" /\ call[t].pc = "idle" /\ call[t].outcome = "ok")
      => Mine["reviews"] = Dict(Merge(call[t].review_collection))

\* The scalar attributes every page's sidebar carries.
SidebarScalars ==
  {"picture", "id", "website"}
  \cup {GeneralFields[k] : k \in 1..Len(GeneralFields)}
  \cup {StatsFields[k] : k \in 1..Len(StatsFields)}

\* The attribute a listing page loads.
ListingAttr(kind) == IF kind = "profile" THEN "" ELSE kind

\* The entries of a page's listing that its parser reads.
ParsedItems(doc) ==
  IF doc.kind = "recommendations" /\ doc.items # <<>> THEN Tail(doc.items) ELSE doc.items

\* A page of the expected structure on which exactly one fragment is
\* malformed, and the attribute that fragment belongs to.
Malformed(doc) ==
  /\ doc.kind # "" /\ ~doc.error404 /\ doc.panel /\ doc.status /\ doc.content
  /\ \/ doc.how = "bad"
     \/ \E k \in 1..Len(ParsedItems(doc)) : ~ParsedItems(doc)[k].ok
MalformedField(doc) == IF doc.how = "bad" THEN doc.field ELSE ListingAttr(doc.kind)

\* The first load on a new User, made by one caller on its own, has fetched
\* its first page.
FirstLoad ==
  /\ ~concurrent /\ ops = 2 /\ me # 0
  /\ call[1].op = "read" /\ call[1].req = <<0>>

\* C4 (as claimed): in permissive mode a load of a page with exactly one
\* malformed fragment does not raise, leaves the attribute of that fragment
\* unset, and sets the other scalar attributes of the page to their values.
C4_PermissiveIsolation ==
  (suppress_parse_exceptions /\ FirstLoad /\ Malformed(call[1].doc)) =>
     LET doc == call[1].doc
     IN /\ call[1].outcome \in {"ok", "none"}
        /\ ~IsSet(Mine, MalformedField(doc))
        /\ \A f \in SidebarScalars \ {MalformedField(doc)} :
             f \in DOMAIN Mine /\ Mine[f] = Val(doc.v)

\* C5 (as claimed): in strict mode a load that fetched a page with a
\* malformed fragment has raised and has left every attribute as it was.
C5_StrictAllOrNothing ==
  (~suppress_parse_exceptions /\ ~concurrent /\ ops = 2 /\ me # 0
   /\ call[1].op = "read" /\ call[1].pc = "idle" /\ Malformed(call[1].doc)) =>
     /\ call[1].outcome \notin {"ok", "none"}
     /\ Mine = UserInit

C7_NotFoundIsFatal ==
  (~concurrent /\ ops = 2 /\ me # 0 /\ call[1].op = "read" /\ call[1].pc = "idle"
   /\ call[1].doc.kind # "" /\ call[1].doc.error404) =>
     /\ call[1].outcome = "InvalidUserError"
     /\ Mine = UserInit

\* C8: no User entity with a username that is empty or not unicode exists,
\* and asking for one fails with InvalidUserError without a fetch.
C8_InvalidKeyRejected ==
  /\ \A i \in 1..Len(heap) :
       heap[i].kind = "user" => heap[i].key.unicode /\ Len(heap[i].key.chars) >= 1
  /\ \A t \in Callers :
       (call[t].op = "session_user" /\ ~(call[t].arg.unicode /\ Len(call[t].arg.chars) >= 1))
         => /\ call[t].outcome = "InvalidUserError"
            /\ call[t].req = <<>>
            /\ call[t].doc.kind = ""

\* C8's case: one caller asked for the empty username and another for a
\* username that is not unicode, and both calls raised.
C8_Witness ==
  \E t, u \in Callers :
    /\ call[t].op = "session_user" /\ call[t].arg = Name(TRUE, <<>>)
    /\ call[t].outcome = "InvalidUserError"
    /\ call[u].op = "session_user" /\ call[u].arg = Name(FALSE, Satou)
    /\ call[u].outcome = "InvalidUserError"

\* C9: the session holds one entity per kind and key, the registry points
\* at it, and a session lookup by a caller fetches nothing.
C9_OneInstancePerKey ==
  /\ \A i, j \in 1..Len(heap) :
       (heap[i].kind = heap[j].kind /\ heap[i].key = heap[j].key) => i = j
  /\ \A k \in Kinds : \A key \in DOMAIN registry[k] :
       /\ registry[k][key] \in 1..Len(heap)
       /\ heap[registry[k][key]].kind = k
       /\ heap[registry[k][key]].key = key
  /\ \A t \in Callers :
       call[t].op \in {"session_user", "session_anime"} =>
         call[t].req = <<>> /\ call[t].doc.kind = ""

\* C9's case: a caller's session.anime(k) returned an entity that a parser
\* had resolved before, so that the caller sees the title the parser hinted.
C9_Witness ==
  \E t \in Callers :
    /\ call[t].op = "session_anime"
    /\ call[t].loaded \in 1..Len(heap)
    /\ IsSet(heap[call[t].loaded].attrs, "title")
    /\ Len(heap) >= 3

\* C10 (as claimed): of two callers that began reading the same group
\* before any load of it had returned, at most one fetches the group's page.
C10_SingleFetch ==
  ~(/\ concurrent
    /\ call[1].fresh /\ call[2].fresh
    /\ call[1].req # <<>> /\ call[2].req # <<>>
    /\ call[1].doc.kind = call[2].doc.kind)

\* C11 (as claimed): no reader finds the reviews attribute set while the
\* only load_reviews call made so far is still fetching later pages (what it
\* would read then is page 0's entries, an intermediate state of the group).
C11_AtomicBatch ==
  \A t, u \in Callers :
    ~(/\ t # u
      /\ call[t].pc = "load_reviews" /\ call[t].page >= 1
      /\ ~done["load_reviews"]
      /\ call[u].op = "read" /\ call[u].cached /\ call[u].attr = "reviews")

\* The loaders of the listing pages and the attribute each is named after.
ListingLoaders == {"load_reviews", "load_recommendations", "load_clubs", "load_friends"}
OwnAttr(loader) ==
  CASE loader = "load_reviews" -> "reviews"
    [] loader = "load_recommendations" -> "recommendations"
    [] loader = "load_clubs" -> "clubs"
    [] OTHER -> "friends"

\* A step leaves attribute a of the User as it is.
Untouched(a) ==
  /\ (a \in DOMAIN heap[me].attrs) <=> (a \in DOMAIN heap'[me].attrs)
  /\ a \in DOMAIN heap[me].attrs => heap'[me].attrs[a] = heap[me].attrs[a]

\* C12 (as claimed): a step of load_reviews, load_recommendations,
\* load_clubs or load_friends changes no attribute but the loader's own; the
\* profile attributes (picture, id, last_online, ..., website) stay as they
\* were.
C12_DisjointGroups ==
  [][\A t \in Callers :
       (call[t].pc \in ListingLoaders /\ call'[t] # call[t]) =>
          \A a \in Loadable \ {OwnAttr(call[t].pc)} : Untouched(a)]_vars

\* C12 (amended): a step of a listing loader changes only the loader's own
\* attribute and sidebar attributes that were unset; a sidebar attribute that
\* is set, and every attribute outside the sidebar (num_comments, the
\* favorites, last_list_updates, about, the statistics, the other listings),
\* stays as it was.
C12_SidebarShared ==
  [][\A t \in Callers :
       (call[t].pc \in ListingLoaders /\ call'[t] # call[t]) =>
          /\ \A a \in Loadable \ ({OwnAttr(call[t].pc)} \cup SidebarScalars) : Untouched(a)
          /\ \A a \in SidebarScalars : IsSet(heap[me].attrs, a) => Untouched(a)]_vars

\* C12's case: load_clubs returned on a User whose profile had been loaded:
\* the profile's attributes and clubs are set.
C12_Witness ==
  \E t \in Callers :
    /\ call[t].op = "read" /\ call[t].pc = "idle" /\ call[t].outcome = "ok"
    /\ call[t].doc.kind = "clubs"
    /\ done["load"] /\ IsSet(Mine, "about") /\ IsSet(Mine, "picture")
    /\ IsSet(Mine, "clubs")

\* A page whose overall structure is not recognizable: the user-profile
\* panel, the user-status lists or the content table is absent.
Unrecognizable(doc) ==
  doc.kind # "" /\ ~doc.error404 /\ (~doc.panel \/ ~doc.status \/ ~doc.content)

\* A step in which a caller's load ends, having fetched such a page last.
EndsUnrecognizable(t) ==
  call[t].pc \in Loaders /\ call'[t].pc = "idle" /\ Unrecognizable(call'[t].doc)

\* C13 (as claimed): a load that fetched a page of unrecognizable structure
\* fails with MalformedUserPageError, in either mode, and every attribute
\* that was set keeps its value.
C13_StructureIsFatal ==
  [][\A t \in Callers :
       EndsUnrecognizable(t) =>
          /\ call'[t].outcome = "MalformedUserPageError"
          /\ \A a \in Loadable : IsSet(heap[me].attrs, a) => Untouched(a)]_vars

C16_SetStaysSet ==
  [][(suppress_parse_exceptions /\ me # 0) =>
        \A a \in Loadable :
           IsSet(heap[me].attrs, a) =>
             /\ IsSet(heap'[me].attrs, a)
             /\ heap'[me].attrs[a] = heap[me].attrs[a]]_vars

\* C16's case: in permissive mode load_friends returned after fetching a
\* page without the Last Online field, on a User whose last_online had been
\* loaded before; last_online is still set.
C16_Witness ==
  \E t \in Callers :
    /\ suppress_parse_exceptions
    /\ call[t].op = "read" /\ call[t].pc = "idle" /\ call[t].outcome = "ok"
    /\ call[t].doc.kind = "friends"
    /\ call[t].doc.field = "last_online" /\ call[t].doc.how = "absent"
    /\ IsSet(Mine, "last_online") /\ IsSet(Mine, "friends")

====
